---- MODULE Spec2Model ----
(***************************************************************************)
(* Model of the two numeric engines of the repository:                     *)
(*   - calculateLayout / processRow  (justified row layout)                *)
(*   - solve / getHomographyMatrix / warpPerspective (rectification)       *)
(*                                                                         *)
(* JavaScript numbers are modelled as exact rationals extended with        *)
(* +Infinity, -Infinity and NaN: a value is a record [n, d] with           *)
(*   d > 0, gcd(n, d) = 1   a finite rational n/d                          *)
(*   d = 0, n = 1 / n = -1  +Infinity / -Infinity                          *)
(*   d = 0, n = 0           NaN                                            *)
(* Rounding error of IEEE doubles and the sign of zero are not modelled.   *)
(***************************************************************************)
EXTENDS Integers, Sequences, FiniteSets, TLC

(***************************************************************************)
(* Bounds of the model.                                                    *)
(***************************************************************************)
MaxItems == 4

MaxEntry == 1

MaxJitter == 1

\* calls of calculateLayout with the same arguments
MaxCalls == 2

\* images uploaded to App at any one time
MaxAppImages == 2

(***************************************************************************)
(* JavaScript number arithmetic.                                           *)
(***************************************************************************)
Sign(i) == IF i > 0 THEN 1 ELSE IF i < 0 THEN -1 ELSE 0

AbsInt(i) == IF i < 0 THEN -i ELSE i

RECURSIVE Gcd(_, _)
Gcd(p, q) == IF q = 0 THEN p ELSE Gcd(q, p % q)

Num(n, d) ==
    IF d = 0 THEN [n |-> Sign(n), d |-> 0]
    ELSE LET g == Gcd(AbsInt(n), AbsInt(d))
             s == Sign(d)
         IN  [n |-> (s * n) \div g, d |-> (s * d) \div g]

I(i) == [n |-> i, d |-> 1]

Zero == I(0)

One == I(1)

NaN == [n |-> 0, d |-> 0]

PosInf == [n |-> 1, d |-> 0]

NegInf == [n |-> -1, d |-> 0]

IsNaN(p) == p.d = 0 /\ p.n = 0

IsInf(p) == p.d = 0 /\ p.n # 0

IsFinite(p) == p.d # 0

\* p + q
Add(p, q) ==
    IF IsNaN(p) \/ IsNaN(q) THEN NaN
    ELSE IF IsInf(p) /\ IsInf(q) THEN (IF p.n = q.n THEN p ELSE NaN)
    ELSE IF IsInf(p) THEN p
    ELSE IF IsInf(q) THEN q
    ELSE Num(p.n * q.d + q.n * p.d, p.d * q.d)

\* -p
Neg(p) == [n |-> -p.n, d |-> p.d]

\* p - q
Sub(p, q) == Add(p, Neg(q))

\* p * q   (0 * Infinity = NaN, NaN * x = NaN)
Mul(p, q) == Num(p.n * q.n, p.d * q.d)

\* p / q   (x / 0 = +-Infinity for x # 0, 0 / 0 = NaN, x / Infinity = 0)
Div(p, q) == Num(p.n * q.d * (IF q.n < 0 THEN -1 ELSE 1), p.d * AbsInt(q.n))

\* Math.abs(p)
Abs(p) == [n |-> AbsInt(p.n), d |-> p.d]

\* p < q   (false when either side is NaN)
Lt(p, q) ==
    IF IsNaN(p) \/ IsNaN(q) THEN FALSE
    ELSE IF IsInf(p) /\ IsInf(q) THEN p.n < q.n
    ELSE p.n * q.d < q.n * p.d

\* p > q
Gt(p, q) == Lt(q, p)

\* p >= q  (false when either side is NaN)
Ge(p, q) == ~IsNaN(p) /\ ~IsNaN(q) /\ ~Lt(p, q)

\* p <= q
Le(p, q) == Ge(q, p)

\* Math.max(p, q)  (NaN when either side is NaN)
Max(p, q) == IF IsNaN(p) \/ IsNaN(q) THEN NaN ELSE IF Lt(p, q) THEN q ELSE p

\* Math.floor(p)
Floor(p) == IF p.d = 0 THEN p ELSE I(p.n \div p.d)

(***************************************************************************)
(* State.                                                                  *)
(***************************************************************************)
VARIABLES
    \* calculateLayout
    images,        \* the argument: sequence of [id, aspectRatio]
    config,        \* the argument: [canvasSize, gap, targetRowHeightRatio]
    layout,        \* PositionedImage[] under construction / returned
    currentRow,    \* let currentRow
    currentY,      \* let currentY
    imgIdx,        \* position of the for-of loop over images
    lpc,           \* "start", "loop", "returned" (or the name of a thrown error)
    calls,         \* how many times calculateLayout was called with these arguments
    prevLayout,    \* the array the previous call returned
    \* solve / getHomographyMatrix / warpPerspective
    entry,         \* the function called: "solve", "getHomographyMatrix", "warpPerspective"
    corners,       \* warpPerspective's corners / getHomographyMatrix's src
    dstPoints,     \* getHomographyMatrix's dst
    srcImg,        \* the decoded image: [w, h, data]
    width,         \* const width  (destination width)
    height,        \* const height (destination height)
    A,             \* solve's matrix, mutated in place
    b,             \* solve's right-hand side, mutated in place
    A0,            \* the matrix as the caller passed it to solve
    b0,            \* the right-hand side as the caller passed it to solve
    solveI,        \* solve's outer loop variable i (1-based)
    x,             \* solve's result vector
    H,             \* getHomographyMatrix's result
    dstData,       \* dstData.data, the destination pixel buffer
    loopX,         \* the pixel loop's x
    loopY,         \* the pixel loop's y
    visits,        \* how often the loop body ran for each destination pixel
    writes,        \* how many stores each element of dstData.data received
    wpc,           \* position in the call
    promise,       \* warpPerspective's promise: "pending", "resolved" or the rejection
    \* App (collage): React state and the generation in flight
    appImages,     \* useState images
    appConfig,     \* useState config
    generatedBlob, \* useState generatedBlob: [set, of]
    previewUrl,    \* useState previewUrl: [set, of]
    isGenerating,  \* useState isGenerating
    appError,      \* useState error: "null" or the message
    genPc,         \* position of the generation: "idle", "timer", "blob.draw", "preview.draw"
    genImages,     \* images as captured by the closure of generateCollage
    genConfig,     \* config as captured by the closure of generateCollage
    genLayout,     \* layout of the render in progress
    draws,         \* drawPromises of the render in progress: "pending", "drawn", "failed"
    clearedSince,  \* handleClear has run and generateCollage was not invoked since
    \* TextureRipper
    isProcessing,  \* useState isProcessing
    resultSrc,     \* useState resultSrc: "null" or "set"
    ripPc          \* position of handleRip: "idle", "timer", "awaiting"

lvars == <<images, config, layout, currentRow, currentY, imgIdx, lpc, calls,
           prevLayout>>

pvars == <<loopX, loopY, visits, writes>>

wvars == <<entry, corners, dstPoints, srcImg, width, height, A, b, A0, b0, solveI,
           x, H, dstData, loopX, loopY, visits, writes, wpc, promise>>

cvars == <<appImages, appConfig, generatedBlob, previewUrl, isGenerating, appError,
           genPc, genImages, genConfig, genLayout, draws, clearedSince>>

rvars == <<isProcessing, resultSrc, ripPc>>

vars == <<images, config, layout, currentRow, currentY, imgIdx, lpc, calls,
          prevLayout,
          entry, corners, dstPoints, srcImg, width, height, A, b, A0, b0, solveI,
          x, H, dstData, loopX, loopY, visits, writes, wpc, promise,
          appImages, appConfig, generatedBlob, previewUrl, isGenerating, appError,
          genPc, genImages, genConfig, genLayout, draws, clearedSince,
          isProcessing, resultSrc, ripPc>>

(***************************************************************************)
(* Inputs of calculateLayout.                                              *)
(***************************************************************************)
AspectRatios == {Num(1, 2), One, Num(4, 3), I(3)}

ItemSeqs ==
    UNION {{[i \in 1..n |-> [id |-> i, aspectRatio |-> f[i]]] :
                f \in [1..n -> AspectRatios]} : n \in 0..MaxItems}

ValidConfigs ==
    [canvasSize : {I(400)},
     gap : {Zero, I(10), I(250)},
     targetRowHeightRatio : {Num(1, 4), Num(1, 2), One}]

InvalidConfigs ==
    {[canvasSize |-> Zero, gap |-> Zero, targetRowHeightRatio |-> Num(1, 2)],
     [canvasSize |-> I(-400), gap |-> Zero, targetRowHeightRatio |-> Num(1, 2)],
     [canvasSize |-> I(400), gap |-> Zero, targetRowHeightRatio |-> Zero],
     [canvasSize |-> I(400), gap |-> Zero, targetRowHeightRatio |-> Num(-1, 2)],
     [canvasSize |-> I(400), gap |-> I(-10), targetRowHeightRatio |-> Num(1, 2)]}

\* LayoutConfig as the spec constrains it
IsValidConfig(cfg) ==
    /\ Gt(cfg.canvasSize, Zero)
    /\ Ge(cfg.gap, Zero)
    /\ Gt(cfg.targetRowHeightRatio, Zero)
    /\ Le(cfg.targetRowHeightRatio, One)

(***************************************************************************)
(* calculateLayout.                                                        *)
(***************************************************************************)
\* rowImages.reduce((sum, img) => sum + img.aspectRatio, 0)
RECURSIVE SumAspect(_, _, _)
SumAspect(row, k, sum) ==
    IF k > Len(row) THEN sum
    ELSE SumAspect(row, k + 1, Add(sum, row[k].aspectRatio))

totalAspectRatio(row) == SumAspect(row, 1, Zero)

targetRowHeight(cfg) == Mul(cfg.canvasSize, cfg.targetRowHeightRatio)

\* (targetRowHeight * currentTotalAspectRatio) + ((currentRow.length + 1) * gap)
widthAtTargetHeight(row, cfg) ==
    Add(Mul(targetRowHeight(cfg), totalAspectRatio(row)),
        Mul(I(Len(row) + 1), cfg.gap))

\* if (widthAtTargetHeight >= canvasSize)
RowIsFullStrict(row, cfg) == Gt(widthAtTargetHeight(row, cfg), cfg.canvasSize)

RowIsFullLookAhead(row, cfg) ==
    \/ Ge(widthAtTargetHeight(row, cfg), cfg.canvasSize)
    \/ /\ imgIdx < Len(images)
       /\ Gt(widthAtTargetHeight(Append(row, images[imgIdx + 1]), cfg),
             Mul(cfg.canvasSize, Num(3, 2)))

RowIsFull(row, cfg) == Ge(widthAtTargetHeight(row, cfg), cfg.canvasSize)

\* the row height chosen by processRow
rowHeightOfInnerGaps(row, isLastRow, cfg) ==
    LET totalGapWidth == Mul(I(Len(row) - 1), cfg.gap)
        availableWidth == Sub(cfg.canvasSize, totalGapWidth)
        rowHeight == Div(availableWidth, totalAspectRatio(row))
    IN  IF isLastRow /\ Gt(rowHeight, Mul(targetRowHeight(cfg), Num(3, 2)))
        THEN targetRowHeight(cfg)
        ELSE rowHeight

rowHeightOfNoClamp(row, isLastRow, cfg) ==
    LET totalGapWidth == Mul(I(Len(row) + 1), cfg.gap)
        availableWidth == Sub(cfg.canvasSize, totalGapWidth)
    IN  Div(availableWidth, totalAspectRatio(row))

rowHeightOfClampAtLimit(row, isLastRow, cfg) ==
    LET totalGapWidth == Mul(I(Len(row) + 1), cfg.gap)
        availableWidth == Sub(cfg.canvasSize, totalGapWidth)
        rowHeight == Div(availableWidth, totalAspectRatio(row))
    IN  IF isLastRow /\ Ge(rowHeight, Mul(targetRowHeight(cfg), Num(3, 2)))
        THEN targetRowHeight(cfg)
        ELSE rowHeight

rowHeightOf(row, isLastRow, cfg) ==
    LET totalGapWidth == Mul(I(Len(row) + 1), cfg.gap)
        availableWidth == Sub(cfg.canvasSize, totalGapWidth)
        rowHeight == Div(availableWidth, totalAspectRatio(row))
    IN  IF isLastRow /\ Gt(rowHeight, Mul(targetRowHeight(cfg), Num(3, 2)))
        THEN targetRowHeight(cfg)
        ELSE rowHeight

\* rowImages.forEach(...): the placements of one row, left to right
RECURSIVE PlaceRowNoGap(_, _, _, _, _, _, _)
PlaceRowNoGap(row, k, currentX, y, rowHeight, gap, acc) ==
    IF k > Len(row) THEN acc
    ELSE LET w == Mul(rowHeight, row[k].aspectRatio)
         IN  PlaceRowNoGap(row, k + 1, Add(currentX, w), y, rowHeight, gap,
                           Append(acc, [image |-> row[k], x |-> currentX, y |-> y,
                                        width |-> w, height |-> rowHeight]))

RECURSIVE PlaceRow(_, _, _, _, _, _, _)
PlaceRow(row, k, currentX, y, rowHeight, gap, acc) ==
    IF k > Len(row) THEN acc
    ELSE LET w == Mul(rowHeight, row[k].aspectRatio)
         IN  PlaceRow(row, k + 1, Add(currentX, Add(w, gap)), y, rowHeight, gap,
                      Append(acc, [image |-> row[k], x |-> currentX, y |-> y,
                                   width |-> w, height |-> rowHeight]))

\* processRow(rowImages, isLastRow): the new values of layout and currentY
processRow(lay, cy, rowImages, isLastRow, cfg) ==
    IF Len(rowImages) = 0 THEN [layout |-> lay, currentY |-> cy]
    ELSE LET rowHeight == rowHeightOf(rowImages, isLastRow, cfg)
         IN  [layout |-> lay \o PlaceRow(rowImages, 1, cfg.gap, cy,
                                         rowHeight, cfg.gap, <<>>),
              currentY |-> Add(cy, Add(rowHeight, cfg.gap))]

\* entry of calculateLayout up to the for loop
LayoutEnterValidating ==
    /\ lpc = "start"
    /\ IF ~IsValidConfig(config)
       THEN /\ lpc' = "InvalidConfig"
            /\ UNCHANGED <<layout, currentRow, currentY, imgIdx>>
       ELSE IF Len(images) = 0
       THEN /\ lpc' = "returned"
            /\ layout' = <<>>
            /\ UNCHANGED <<currentRow, currentY, imgIdx>>
       ELSE /\ lpc' = "loop"
            /\ layout' = <<>>
            /\ currentRow' = <<>>
            /\ currentY' = config.gap
            /\ imgIdx' = 1
    /\ UNCHANGED <<calls, prevLayout, images, config>>
    /\ UNCHANGED wvars
    /\ UNCHANGED cvars
    /\ UNCHANGED rvars

LayoutEnterSharedArray ==
    /\ lpc = "start"
    /\ IF Len(images) = 0
       THEN /\ lpc' = "returned"
            /\ layout' = <<>>
            /\ UNCHANGED <<currentRow, currentY, imgIdx>>
       ELSE /\ lpc' = "loop"
            /\ layout' = layout
            /\ currentRow' = <<>>
            /\ currentY' = config.gap
            /\ imgIdx' = 1
    /\ UNCHANGED <<calls, prevLayout, images, config>>
    /\ UNCHANGED wvars
    /\ UNCHANGED cvars
    /\ UNCHANGED rvars

LayoutEnter ==
    /\ lpc = "start"
    /\ IF Len(images) = 0
       THEN /\ lpc' = "returned"
            /\ layout' = <<>>
            /\ UNCHANGED <<currentRow, currentY, imgIdx>>
       ELSE /\ lpc' = "loop"
            /\ layout' = <<>>
            /\ currentRow' = <<>>
            /\ currentY' = config.gap
            /\ imgIdx' = 1
    /\ UNCHANGED <<calls, prevLayout, images, config>>
    /\ UNCHANGED wvars
    /\ UNCHANGED cvars
    /\ UNCHANGED rvars

\* one iteration of: for (const img of images)
LayoutIterate ==
    /\ lpc = "loop"
    /\ imgIdx <= Len(images)
    /\ LET row == Append(currentRow, images[imgIdx])
       IN  IF RowIsFull(row, config)
           THEN LET r == processRow(layout, currentY, row, FALSE, config)
                IN  /\ layout' = r.layout
                    /\ currentY' = r.currentY
                    /\ currentRow' = <<>>
           ELSE /\ currentRow' = row
                /\ UNCHANGED <<layout, currentY>>
    /\ imgIdx' = imgIdx + 1
    /\ UNCHANGED <<calls, prevLayout, images, config, lpc>>
    /\ UNCHANGED wvars
    /\ UNCHANGED cvars
    /\ UNCHANGED rvars

\* after the loop: process remaining, return layout
LayoutFinishNoFlush ==
    /\ lpc = "loop"
    /\ imgIdx > Len(images)
    /\ lpc' = "returned"
    /\ UNCHANGED <<calls, prevLayout, images, config, layout, currentRow, currentY, imgIdx>>
    /\ UNCHANGED wvars
    /\ UNCHANGED cvars
    /\ UNCHANGED rvars

LayoutFinish ==
    /\ lpc = "loop"
    /\ imgIdx > Len(images)
    /\ IF Len(currentRow) > 0
       THEN LET r == processRow(layout, currentY, currentRow, TRUE, config)
            IN  /\ layout' = r.layout
                /\ currentY' = r.currentY
       ELSE UNCHANGED <<layout, currentY>>
    /\ lpc' = "returned"
    /\ UNCHANGED <<calls, prevLayout, images, config, currentRow, imgIdx>>
    /\ UNCHANGED wvars
    /\ UNCHANGED cvars
    /\ UNCHANGED rvars

\* renderCollageToBlob calls calculateLayout(images, config) again with the
\* arguments renderCollage passed
LayoutCallAgain ==
    /\ lpc = "returned"
    /\ calls < MaxCalls
    /\ calls' = calls + 1
    /\ prevLayout' = layout
    /\ lpc' = "start"
    /\ UNCHANGED <<images, config, layout, currentRow, currentY, imgIdx>>
    /\ UNCHANGED wvars
    /\ UNCHANGED cvars
    /\ UNCHANGED rvars

\* no layout call in progress
LayoutIdle ==
    /\ images = <<>>
    /\ config = [canvasSize |-> Zero, gap |-> Zero, targetRowHeightRatio |-> Zero]
    /\ layout = <<>>
    /\ currentRow = <<>>
    /\ currentY = Zero
    /\ imgIdx = 0
    /\ lpc = "idle"
    /\ calls = 0
    /\ prevLayout = <<>>

\* no solve / getHomographyMatrix / warpPerspective call in progress
WarpIdle ==
    /\ entry = "none"
    /\ corners = <<>>
    /\ dstPoints = <<>>
    /\ srcImg = [w |-> 0, h |-> 0, data |-> <<>>]
    /\ width = Zero
    /\ height = Zero
    /\ A = <<>>
    /\ b = <<>>
    /\ A0 = <<>>
    /\ b0 = <<>>
    /\ solveI = 0
    /\ x = <<>>
    /\ H = <<>>
    /\ dstData = <<>>
    /\ loopX = 0
    /\ loopY = 0
    /\ visits = <<>>
    /\ writes = <<>>
    /\ wpc = "idle"
    /\ promise = "none"

\* the default config of App, useState at lines 11-16 (backgroundColor left out)
DefaultConfig ==
    [canvasSize |-> I(10000), gap |-> I(15), targetRowHeightRatio |-> Num(3, 20)]

NoResult == [set |-> FALSE, of |-> <<>>]

\* App as mounted, nothing uploaded, nothing generated
AppIdle ==
    /\ appImages = <<>>
    /\ appConfig = DefaultConfig
    /\ generatedBlob = NoResult
    /\ previewUrl = NoResult
    /\ isGenerating = FALSE
    /\ appError = "null"
    /\ genPc = "idle"
    /\ genImages = <<>>
    /\ genConfig = DefaultConfig
    /\ genLayout = <<>>
    /\ draws = <<>>
    /\ clearedSince = FALSE

\* TextureRipper as mounted
RipIdle ==
    /\ isProcessing = FALSE
    /\ resultSrc = "null"
    /\ ripPc = "idle"

InitLayout ==
    /\ WarpIdle
    /\ AppIdle
    /\ RipIdle
    /\ images \in ItemSeqs
    /\ config \in ValidConfigs \cup InvalidConfigs
    /\ layout = <<>>
    /\ currentRow = <<>>
    /\ currentY = Zero
    /\ imgIdx = 0
    /\ lpc = "start"
    /\ calls = 1
    /\ prevLayout = <<>>

NextLayout ==
    \/ LayoutEnter
    \/ LayoutIterate
    \/ LayoutFinish
    \/ LayoutCallAgain

SpecLayout == InitLayout /\ [][NextLayout]_vars

(***************************************************************************)
(* solve(A, b): Gaussian elimination with partial pivoting.  The code's     *)
(* 0-based indices i, k, j are 1-based here.                               *)
(***************************************************************************)
\* the search for the maximum in column i: the row it ends with in maxRow
RECURSIVE maxRowFrom(_, _, _, _, _)
maxRowFrom(M, i, k, maxEl, maxRow) ==
    IF k > Len(M) THEN maxRow
    ELSE IF Gt(Abs(M[k][i]), maxEl)
    THEN maxRowFrom(M, i, k + 1, Abs(M[k][i]), k)
    ELSE maxRowFrom(M, i, k + 1, maxEl, maxRow)

maxRowOf(M, i) == maxRowFrom(M, i, i + 1, Abs(M[i][i]), i)

\* swap rows maxRow and i of the matrix, columns i..n-1 only
swapRows(M, i, maxRow) ==
    [k \in 1..Len(M) |->
        IF k = i /\ k # maxRow
        THEN [j \in 1..Len(M) |-> IF j >= i THEN M[maxRow][j] ELSE M[i][j]]
        ELSE IF k = maxRow /\ k # i
        THEN [j \in 1..Len(M) |-> IF j >= i THEN M[i][j] ELSE M[maxRow][j]]
        ELSE M[k]]

\* swap entries maxRow and i of b
swapVecNone(v, i, maxRow) == v

swapVec(v, i, maxRow) ==
    [k \in 1..Len(v) |->
        IF k = i THEN v[maxRow] ELSE IF k = maxRow THEN v[i] ELSE v[k]]

\* c = -A[k][i] / A[i][i]
factorPositive(M, i, k) == Div(M[k][i], M[i][i])

factor(M, i, k) == Div(Neg(M[k][i]), M[i][i])

\* make all rows below row i zero in column i: the matrix
eliminateRows(M, i) ==
    [k \in 1..Len(M) |->
        IF k <= i THEN M[k]
        ELSE [j \in 1..Len(M) |->
                IF j < i THEN M[k][j]
                ELSE IF j = i THEN Zero
                ELSE Add(M[k][j], Mul(factor(M, i, k), M[i][j]))]]

\* ... and the right-hand side: b[k] += c * b[i]
eliminateVec(M, v, i) ==
    [k \in 1..Len(v) |->
        IF k <= i THEN v[k] ELSE Add(v[k], Mul(factor(M, i, k), v[i]))]

\* sum += A[i][j] * x[j] for j = i+1 .. n-1
RECURSIVE rowSum(_, _, _, _, _)
rowSum(M, xs, i, j, sum) ==
    IF j > Len(M) THEN sum
    ELSE rowSum(M, xs, i, j + 1, Add(sum, Mul(M[i][j], xs[j])))

\* back-substitution from row n-1 down to row 0
RECURSIVE backSubstitute(_, _, _, _)
backSubstitute(M, v, i, xs) ==
    IF i < 1 THEN xs
    ELSE backSubstitute(M, v, i - 1,
            [xs EXCEPT ![i] = Div(Sub(v[i], rowSum(M, xs, i, i + 1, Zero)), M[i][i])])

\* lines 11-29: pivot search and row swap of step i
SolvePivot ==
    /\ wpc = "solve.pivot"
    /\ solveI <= Len(A)
    /\ LET maxRow == maxRowOf(A, solveI)
       IN  /\ A' = swapRows(A, solveI, maxRow)
           /\ b' = swapVec(b, solveI, maxRow)
    /\ wpc' = "solve.eliminate"
    /\ UNCHANGED <<A0, b0, entry, corners, dstPoints, srcImg, width, height, solveI, x, H,
                   dstData, promise>>
    /\ UNCHANGED pvars
    /\ UNCHANGED lvars
    /\ UNCHANGED cvars
    /\ UNCHANGED rvars

\* lines 31-42: elimination below the pivot of step i; i++
SolveEliminate ==
    /\ wpc = "solve.eliminate"
    /\ A' = eliminateRows(A, solveI)
    /\ b' = eliminateVec(A, b, solveI)
    /\ solveI' = solveI + 1
    /\ wpc' = "solve.pivot"
    /\ UNCHANGED <<A0, b0, entry, corners, dstPoints, srcImg, width, height, x, H,
                   dstData, promise>>
    /\ UNCHANGED pvars
    /\ UNCHANGED lvars
    /\ UNCHANGED cvars
    /\ UNCHANGED rvars

\* lines 45-54: back-substitution, return x
SolveBackSubstitute ==
    /\ wpc = "solve.pivot"
    /\ solveI > Len(A)
    /\ x' = backSubstitute(A, b, Len(A), [k \in 1..Len(A) |-> Zero])
    /\ wpc' = "solve.returned"
    /\ UNCHANGED <<A0, b0, entry, corners, dstPoints, srcImg, width, height, A, b, solveI, H,
                   dstData, promise>>
    /\ UNCHANGED pvars
    /\ UNCHANGED lvars
    /\ UNCHANGED cvars
    /\ UNCHANGED rvars

(***************************************************************************)
(* Inputs of solve when it is called on its own.                           *)
(***************************************************************************)
SolveEntries == (-1)..MaxEntry

SolveDims == {2, 3}

SolveMatrices ==
    UNION {[1..n -> [1..n -> {I(e) : e \in SolveEntries}]] : n \in SolveDims}

SolveVectors(n) == {[k \in 1..n |-> I(k)], [k \in 1..n |-> I(k % 2)]}

InitSolve ==
    /\ LayoutIdle
    /\ AppIdle
    /\ RipIdle
    /\ entry = "solve"
    /\ corners = <<>>
    /\ dstPoints = <<>>
    /\ srcImg = [w |-> 0, h |-> 0, data |-> <<>>]
    /\ width = Zero
    /\ height = Zero
    /\ A \in SolveMatrices
    /\ b \in SolveVectors(Len(A))
    /\ A0 = A
    /\ b0 = b
    /\ solveI = 1
    /\ x = <<>>
    /\ H = <<>>
    /\ dstData = <<>>
    /\ loopX = 0
    /\ loopY = 0
    /\ visits = <<>>
    /\ writes = <<>>
    /\ wpc = "solve.pivot"
    /\ promise = "none"

NextSolve ==
    \/ SolvePivot
    \/ SolveEliminate
    \/ SolveBackSubstitute

SpecSolve == InitSolve /\ [][NextSolve]_vars

(***************************************************************************)
(* getHomographyMatrix(src, dst).                                          *)
(***************************************************************************)
Pt(px, py) == [x |-> I(px), y |-> I(py)]

\* the two rows pushed to A for correspondence (s, d)
systemRowX(s, d) ==
    <<d.x, d.y, One, Zero, Zero, Zero, Mul(Neg(s.x), d.x), Mul(Neg(s.x), d.y)>>

systemRowY(s, d) ==
    <<Zero, Zero, Zero, d.x, d.y, One, Mul(Neg(s.y), d.x), Mul(Neg(s.y), d.y)>>

\* the matrix A built by the loop over the four correspondences
systemMatrixReversed(src, dst) ==
    [r \in 1..8 |->
        IF r % 2 = 1 THEN systemRowX(dst[(r + 1) \div 2], src[(r + 1) \div 2])
        ELSE systemRowY(dst[r \div 2], src[r \div 2])]

systemMatrix(src, dst) ==
    [r \in 1..8 |->
        IF r % 2 = 1 THEN systemRowX(src[(r + 1) \div 2], dst[(r + 1) \div 2])
        ELSE systemRowY(src[r \div 2], dst[r \div 2])]

\* the vector b built by the same loop
systemVector(src) ==
    [r \in 1..8 |->
        IF r % 2 = 1 THEN src[(r + 1) \div 2].x ELSE src[r \div 2].y]

\* lines 60-72: build A and b, call solve(A, b)
HomographyBuild ==
    /\ wpc = "homography"
    /\ A' = systemMatrix(corners, dstPoints)
    /\ b' = systemVector(corners)
    /\ A0' = A'
    /\ b0' = b'
    /\ solveI' = 1
    /\ wpc' = "solve.pivot"
    /\ UNCHANGED <<entry, corners, dstPoints, srcImg, width, height, x, H,
                   dstData, promise>>
    /\ UNCHANGED pvars
    /\ UNCHANGED lvars
    /\ UNCHANGED cvars
    /\ UNCHANGED rvars

\* lines 72-74: h = solve(A, b); h.push(1); return h
HomographyReturn ==
    /\ wpc = "solve.returned"
    /\ entry # "solve"
    /\ H' = Append(x, One)
    /\ wpc' = "homography.returned"
    /\ UNCHANGED <<A0, b0, entry, corners, dstPoints, srcImg, width, height, A, b, solveI, x,
                   dstData, promise>>
    /\ UNCHANGED pvars
    /\ UNCHANGED lvars
    /\ UNCHANGED cvars
    /\ UNCHANGED rvars

(***************************************************************************)
(* warpPerspective(imageSrc, corners): img.onload.                         *)
(***************************************************************************)
\* the square of Math.hypot(p.x - q.x, p.y - q.y)
hypotSq(p, q) ==
    Add(Mul(Sub(p.x, q.x), Sub(p.x, q.x)), Mul(Sub(p.y, q.y), Sub(p.y, q.y)))

\* the largest r with r * r <= n
RECURSIVE Isqrt(_, _)
Isqrt(n, r) == IF (r + 1) * (r + 1) > n THEN r ELSE Isqrt(n, r + 1)

\* Math.floor(Math.max(Math.hypot(..), Math.hypot(..))), from the squares of
\* the two lengths: floor(sqrt(s)) = isqrt(floor(s))
floorMaxHypot(sq1, sq2) == I(Isqrt(Floor(Max(sq1, sq2)).n, 0))

\* const width = Math.floor(Math.max(topW, botW))
widthOf(c) == floorMaxHypot(hypotSq(c[2], c[1]), hypotSq(c[3], c[4]))

\* const height = Math.floor(Math.max(leftH, rightH))
heightOf(c) == floorMaxHypot(hypotSq(c[4], c[1]), hypotSq(c[3], c[2]))

\* const dstPoints = [TL(0,0), TR(w,0), BR(w,h), BL(0,h)]
dstPointsOf(w, h) ==
    <<[x |-> Zero, y |-> Zero], [x |-> w, y |-> Zero],
      [x |-> w, y |-> h], [x |-> Zero, y |-> h]>>

\* the conversion of a number stored into a Uint8ClampedArray element:
\* NaN -> 0, clamped to 0..255, rounded to nearest, ties to even
ToUint8Truncate(v) ==
    IF IsNaN(v) THEN 0
    ELSE IF Le(v, Zero) THEN 0
    ELSE IF Ge(v, I(255)) THEN 255
    ELSE v.n \div v.d

ToUint8Clamp(v) ==
    IF IsNaN(v) THEN 0
    ELSE IF Le(v, Zero) THEN 0
    ELSE IF Ge(v, I(255)) THEN 255
    ELSE LET f == v.n \div v.d
             twice == 2 * (v.n - f * v.d)     \* 2 * fraction * v.d
         IN  IF twice < v.d THEN f
             ELSE IF twice > v.d THEN f + 1
             ELSE IF f % 2 = 0 THEN f ELSE f + 1

\* u = (h00*x + h01*y + h02) / div
mapU(h, px, py) ==
    Div(Add(Add(Mul(h[1], px), Mul(h[2], py)), h[3]),
        Add(Add(Mul(h[7], px), Mul(h[8], py)), One))

\* v = (h10*x + h11*y + h12) / div
mapV(h, px, py) ==
    Div(Add(Add(Mul(h[4], px), Mul(h[5], py)), h[6]),
        Add(Add(Mul(h[7], px), Mul(h[8], py)), One))

\* if (u >= 0 && u < sw - 1 && v >= 0 && v < sh - 1)
inBoundsInclusive(u, v, sw, sh) ==
    /\ Ge(u, Zero)
    /\ Le(u, I(sw - 1))
    /\ Ge(v, Zero)
    /\ Le(v, I(sh - 1))

inBounds(u, v, sw, sh) ==
    /\ Ge(u, Zero)
    /\ Lt(u, I(sw - 1))
    /\ Ge(v, Zero)
    /\ Lt(v, I(sh - 1))

\* sData[idx]: a read outside the typed array gives undefined, which is
\* NaN in arithmetic
srcRead(img, idx) ==
    IF idx \in DOMAIN img.data THEN I(img.data[idx]) ELSE NaN

\* the bilinear sum of channel ch at (u, v), before it is stored
bilinearWeightsSwapped(img, u, v, ch) ==
    LET u0 == Floor(u).n
        v0 == Floor(v).n
        u1 == u0 + 1
        v1 == v0 + 1
        fa == Sub(u, I(u0))
        fb == Sub(v, I(v0))
        ia == Sub(One, fa)
        ib == Sub(One, fb)
        idx00 == (v0 * img.w + u0) * 4
        idx10 == (v0 * img.w + u1) * 4
        idx01 == (v1 * img.w + u0) * 4
        idx11 == (v1 * img.w + u1) * 4
    IN  Add(Add(Add(Mul(Mul(fa, fb), srcRead(img, idx00 + ch)),
                    Mul(Mul(ia, fb), srcRead(img, idx10 + ch))),
                Mul(Mul(fa, ib), srcRead(img, idx01 + ch))),
            Mul(Mul(ia, ib), srcRead(img, idx11 + ch)))

bilinearPremultiplied(img, u, v, ch) ==
    LET u0 == Floor(u).n
        v0 == Floor(v).n
        u1 == u0 + 1
        v1 == v0 + 1
        fa == Sub(u, I(u0))
        fb == Sub(v, I(v0))
        ia == Sub(One, fa)
        ib == Sub(One, fb)
        idx00 == (v0 * img.w + u0) * 4
        idx10 == (v0 * img.w + u1) * 4
        idx01 == (v1 * img.w + u0) * 4
        idx11 == (v1 * img.w + u1) * 4
    IN  Mul(Add(Add(Add(Mul(Mul(ia, ib), srcRead(img, idx00 + ch)),
                        Mul(Mul(fa, ib), srcRead(img, idx10 + ch))),
                    Mul(Mul(ia, fb), srcRead(img, idx01 + ch))),
                Mul(Mul(fa, fb), srcRead(img, idx11 + ch))),
            Div(srcRead(img, idx00 + 3), I(255)))

bilinear(img, u, v, ch) ==
    LET u0 == Floor(u).n
        v0 == Floor(v).n
        u1 == u0 + 1
        v1 == v0 + 1
        fa == Sub(u, I(u0))
        fb == Sub(v, I(v0))
        ia == Sub(One, fa)
        ib == Sub(One, fb)
        idx00 == (v0 * img.w + u0) * 4
        idx10 == (v0 * img.w + u1) * 4
        idx01 == (v1 * img.w + u0) * 4
        idx11 == (v1 * img.w + u1) * 4
    IN  Add(Add(Add(Mul(Mul(ia, ib), srcRead(img, idx00 + ch)),
                    Mul(Mul(fa, ib), srcRead(img, idx10 + ch))),
                Mul(Mul(ia, fb), srcRead(img, idx01 + ch))),
            Mul(Mul(fa, fb), srcRead(img, idx11 + ch)))

\* const idx = (y * w + x) * 4
dstIdxTransposed(lx, ly, w) == (lx * w + ly) * 4

dstIdx(lx, ly, w) == (ly * w + lx) * 4

\* data[i] = val: a store outside the typed array is ignored
store(data, i, val) == IF i \in DOMAIN data THEN [data EXCEPT ![i] = val] ELSE data

\* lines 132-180: the body of the pixel loop at (x, y) = (lx, ly)
pixelBody(h, img, w, data, lx, ly) ==
    LET u == mapU(h, I(lx), I(ly))
        v == mapV(h, I(lx), I(ly))
        idx == dstIdx(lx, ly, w)
    IN  IF inBounds(u, v, img.w, img.h)
        THEN store(store(store(store(data,
                 idx, ToUint8Clamp(bilinear(img, u, v, 0))),
                 idx + 1, ToUint8Clamp(bilinear(img, u, v, 1))),
                 idx + 2, ToUint8Clamp(bilinear(img, u, v, 2))),
                 idx + 3, 255)
        ELSE data

\* the elements of data the body stores to at (lx, ly)
pixelStores(h, img, w, lx, ly) ==
    IF inBounds(mapU(h, I(lx), I(ly)), mapV(h, I(lx), I(ly)), img.w, img.h)
    THEN dstIdx(lx, ly, w)..(dstIdx(lx, ly, w) + 3)
    ELSE {}

\* lines 131-182: the destination buffer after the whole pixel loop, rows
\* top to bottom and each row left to right
RECURSIVE resampleFrom(_, _, _, _, _, _, _)
resampleFrom(h, img, w, ht, data, lx, ly) ==
    IF ly >= ht THEN data
    ELSE IF lx >= w THEN resampleFrom(h, img, w, ht, data, 0, ly + 1)
    ELSE resampleFrom(h, img, w, ht, pixelBody(h, img, w, data, lx, ly), lx + 1, ly)

resample(h, img, w, ht, data) == resampleFrom(h, img, w, ht, data, 0, 0)

\* img.onerror = () => reject("Failed to load image")
ImageError ==
    /\ wpc = "loading"
    /\ promise' = "Failed to load image"
    /\ wpc' = "done"
    /\ UNCHANGED <<A0, b0, entry, corners, dstPoints, srcImg, width, height, A, b, solveI, x,
                   H, dstData>>
    /\ UNCHANGED pvars
    /\ UNCHANGED lvars
    /\ UNCHANGED cvars
    /\ UNCHANGED rvars

\* img.onload, lines 84-121: sizes, canvases, buffers, then the call of
\* getHomographyMatrix.  ctx.createImageData(width, height) throws an
\* IndexSizeError when width or height is 0; the exception leaves the event
\* handler uncaught and the promise is neither resolved nor rejected.
ImageLoad ==
    /\ wpc = "loading"
    /\ width' = widthOf(corners)
    /\ height' = heightOf(corners)
    /\ IF width' = Zero \/ height' = Zero
       THEN /\ wpc' = "onload.threw"
            /\ UNCHANGED <<dstPoints, dstData>>
       ELSE /\ dstPoints' = dstPointsOf(width', height')
            /\ dstData' = [idx \in 0..(width'.n * height'.n * 4 - 1) |-> 0]
            /\ wpc' = "homography"
    /\ UNCHANGED <<A0, b0, entry, corners, srcImg, A, b, solveI, x, H, promise>>
    /\ UNCHANGED pvars
    /\ UNCHANGED lvars
    /\ UNCHANGED cvars
    /\ UNCHANGED rvars

\* lines 123-131: const data, sData, w, h, sw, sh; the loops start
ResampleEnter ==
    /\ wpc = "homography.returned"
    /\ entry = "warpPerspective"
    /\ loopX' = 0
    /\ loopY' = 0
    /\ visits' = [k \in 0..(width.n * height.n - 1) |-> 0]
    /\ writes' = [i \in DOMAIN dstData |-> 0]
    /\ wpc' = "resample.loop"
    /\ UNCHANGED <<A0, b0, entry, corners, dstPoints, srcImg, width, height, A, b, solveI, x,
                   H, dstData, promise>>
    /\ UNCHANGED lvars
    /\ UNCHANGED cvars
    /\ UNCHANGED rvars

\* lines 132-181: one run of the loop body, then x++ (and y++, x = 0 at the
\* end of a row)
ResamplePixel ==
    /\ wpc = "resample.loop"
    /\ loopY < height.n
    /\ dstData' = pixelBody(H, srcImg, width.n, dstData, loopX, loopY)
    /\ visits' = [visits EXCEPT ![loopY * width.n + loopX] = @ + 1]
    /\ writes' = [i \in DOMAIN writes |->
                    IF i \in pixelStores(H, srcImg, width.n, loopX, loopY)
                    THEN writes[i] + 1 ELSE writes[i]]
    /\ IF loopX + 1 < width.n
       THEN loopX' = loopX + 1 /\ loopY' = loopY
       ELSE loopX' = 0 /\ loopY' = loopY + 1
    /\ UNCHANGED <<A0, b0, entry, corners, dstPoints, srcImg, width, height, A, b, solveI, x,
                   H, wpc, promise>>
    /\ UNCHANGED lvars
    /\ UNCHANGED cvars
    /\ UNCHANGED rvars

\* line 131: y < h fails, the loops are over
ResampleExit ==
    /\ wpc = "resample.loop"
    /\ loopY >= height.n
    /\ wpc' = "resampled"
    /\ UNCHANGED <<A0, b0, entry, corners, dstPoints, srcImg, width, height, A, b, solveI, x,
                   H, dstData, promise>>
    /\ UNCHANGED pvars
    /\ UNCHANGED lvars
    /\ UNCHANGED cvars
    /\ UNCHANGED rvars

\* lines 184-185: ctx.putImageData; resolve(canvas.toDataURL(...))
Resolve ==
    /\ wpc = "resampled"
    /\ promise' = "resolved"
    /\ wpc' = "done"
    /\ UNCHANGED <<A0, b0, entry, corners, dstPoints, srcImg, width, height, A, b, solveI, x,
                   H, dstData>>
    /\ UNCHANGED pvars
    /\ UNCHANGED lvars
    /\ UNCHANGED cvars
    /\ UNCHANGED rvars

(***************************************************************************)
(* Inputs of warpPerspective and getHomographyMatrix.                      *)
(***************************************************************************)
Jitter == 0..MaxJitter

\* [TL, TR, BR, BL]: the unit square with every corner moved right and down
\* by 0..MaxJitter pixels; holds squares, trapezoids, quads with three
\* collinear corners, with coincident corners, and the single point
CornerSets ==
    {<<Pt(j[1], j[2]), Pt(1 + j[3], j[4]), Pt(1 + j[5], 1 + j[6]), Pt(j[7], 1 + j[8])>> :
        j \in [1..8 -> Jitter]}

\* the decoded source images: opaque pixels, each side SrcSize - 1 or SrcSize
SrcSize == 3

SourceImages ==
    {[w |-> sw, h |-> sh,
      data |-> [idx \in 0..(sw * sh * 4 - 1) |->
                  IF idx % 4 = 3 THEN 255
                  ELSE (((idx \div 4) % sw) * 40 + ((idx \div 4) \div sw) * 90
                        + (idx % 4) * 7 + 10) % 256]] :
        sw \in {SrcSize - 1, SrcSize}, sh \in {SrcSize - 1, SrcSize}}

\* destination quads given to getHomographyMatrix when it is called on its own
DstQuads ==
    {dstPointsOf(I(w), I(h)) : w \in 1..2, h \in 1..2}
    \cup {<<Pt(0, 1), Pt(1, 1), Pt(1, 2), Pt(0, 2)>>,
          <<Pt(1, 0), Pt(2, 1), Pt(1, 2), Pt(0, 1)>>,
          <<Pt(0, 0), Pt(1, 0), Pt(2, 0), Pt(0, 1)>>}

InitHomography ==
    /\ LayoutIdle
    /\ AppIdle
    /\ RipIdle
    /\ entry = "getHomographyMatrix"
    /\ corners \in CornerSets
    /\ dstPoints \in DstQuads
    /\ srcImg = [w |-> 0, h |-> 0, data |-> <<>>]
    /\ width = Zero
    /\ height = Zero
    /\ A = <<>>
    /\ b = <<>>
    /\ A0 = <<>>
    /\ b0 = <<>>
    /\ solveI = 0
    /\ x = <<>>
    /\ H = <<>>
    /\ dstData = <<>>
    /\ loopX = 0
    /\ loopY = 0
    /\ visits = <<>>
    /\ writes = <<>>
    /\ wpc = "homography"
    /\ promise = "none"

NextHomography ==
    \/ HomographyBuild
    \/ SolvePivot
    \/ SolveEliminate
    \/ SolveBackSubstitute
    \/ HomographyReturn

SpecHomography == InitHomography /\ [][NextHomography]_vars

InitWarp ==
    /\ LayoutIdle
    /\ AppIdle
    /\ RipIdle
    /\ entry = "warpPerspective"
    /\ corners \in CornerSets
    /\ dstPoints = <<>>
    /\ srcImg \in SourceImages
    /\ width = Zero
    /\ height = Zero
    /\ A = <<>>
    /\ b = <<>>
    /\ A0 = <<>>
    /\ b0 = <<>>
    /\ solveI = 0
    /\ x = <<>>
    /\ H = <<>>
    /\ dstData = <<>>
    /\ loopX = 0
    /\ loopY = 0
    /\ visits = <<>>
    /\ writes = <<>>
    /\ wpc = "loading"
    /\ promise = "pending"

NextWarp ==
    \/ ImageError
    \/ ImageLoad
    \/ HomographyBuild
    \/ SolvePivot
    \/ SolveEliminate
    \/ SolveBackSubstitute
    \/ HomographyReturn
    \/ ResampleEnter
    \/ ResamplePixel
    \/ ResampleExit
    \/ Resolve

SpecWarp == InitWarp /\ [][NextWarp]_vars

(***************************************************************************)
(* App: handleImagesAdded, handleClear, generateCollage and the renders    *)
(* renderCollageToBlob and renderCollage that generateCollage awaits.       *)
(***************************************************************************)
\* the for loop of calculateLayout and the lines after it
RECURSIVE layoutLoop(_, _, _, _, _, _)
layoutLoop(imgs, k, lay, row, cy, cfg) ==
    IF k > Len(imgs) THEN processRow(lay, cy, row, TRUE, cfg).layout
    ELSE IF RowIsFull(Append(row, imgs[k]), cfg)
    THEN LET r == processRow(lay, cy, Append(row, imgs[k]), FALSE, cfg)
         IN  layoutLoop(imgs, k + 1, r.layout, <<>>, r.currentY, cfg)
    ELSE layoutLoop(imgs, k + 1, lay, Append(row, imgs[k]), cy, cfg)

\* calculateLayout(images, config) as one call
calculateLayout(imgs, cfg) ==
    IF Len(imgs) = 0 THEN <<>> ELSE layoutLoop(imgs, 1, <<>>, <<>>, cfg.gap, cfg)

\* { ...config, canvasSize: 1000, gap: Math.max(2, config.gap / 10) }
previewConfig(cfg) ==
    [cfg EXCEPT !.canvasSize = I(1000), !.gap = Max(I(2), Div(cfg.gap, I(10)))]

AppAspectRatios == {One, Num(4, 3)}

\* handleImagesAdded with one new image (the Dropzone is disabled while
\* isGenerating)
HandleImagesAdded ==
    /\ ~isGenerating
    /\ Len(appImages) < MaxAppImages
    /\ \E ar \in AppAspectRatios :
          appImages' = Append(appImages, [id |-> Len(appImages) + 1, aspectRatio |-> ar])
    /\ appConfig' = IF Len(appImages) + 1 > 50
                    THEN [appConfig EXCEPT !.targetRowHeightRatio = Num(1, 20)]
                    ELSE appConfig
    /\ UNCHANGED <<generatedBlob, previewUrl, isGenerating, appError, genPc, genImages,
                   genConfig, genLayout, draws, clearedSince>>
    /\ UNCHANGED <<lvars, wvars, rvars>>

\* handleClear; its button is never disabled
HandleClear ==
    /\ appImages' = <<>>
    /\ generatedBlob' = NoResult
    /\ previewUrl' = NoResult
    /\ appError' = "null"
    /\ clearedSince' = TRUE
    /\ UNCHANGED <<appConfig, isGenerating, genPc, genImages, genConfig, genLayout, draws>>
    /\ UNCHANGED <<lvars, wvars, rvars>>

\* generateCollage up to setTimeout; its button is disabled while isGenerating
GenerateCollage ==
    /\ ~isGenerating
    /\ IF Len(appImages) = 0
       THEN UNCHANGED <<isGenerating, appError, genPc, genImages, genConfig>>
       ELSE /\ isGenerating' = TRUE
            /\ appError' = "null"
            /\ genPc' = "timer"
            /\ genImages' = appImages
            /\ genConfig' = appConfig
    /\ clearedSince' = FALSE
    /\ UNCHANGED <<appImages, appConfig, generatedBlob, previewUrl, genLayout, draws>>
    /\ UNCHANGED <<lvars, wvars, rvars>>

\* the timer callback calls renderCollageToBlob(images, config), which runs
\* up to await Promise.all(drawPromises); getContext may return null
GenTimerFires ==
    /\ genPc = "timer"
    /\ \E ctxOk \in BOOLEAN :
          IF ctxOk
          THEN /\ genLayout' = calculateLayout(genImages, genConfig)
               /\ draws' = [i \in 1..Len(genLayout') |-> "pending"]
               /\ genPc' = "blob.draw"
               /\ UNCHANGED <<isGenerating, appError>>
          ELSE /\ appError' = "Could not get canvas context"
               /\ isGenerating' = FALSE
               /\ genPc' = "idle"
               /\ UNCHANGED <<genLayout, draws>>
    /\ UNCHANGED <<appImages, appConfig, generatedBlob, previewUrl, genImages, genConfig,
                   clearedSince>>
    /\ UNCHANGED <<lvars, wvars, rvars>>

\* img.onload of one draw promise: drawImage, resolve
DrawImageLoaded ==
    /\ genPc \in {"blob.draw", "preview.draw"}
    /\ \E i \in DOMAIN draws :
          /\ draws[i] = "pending"
          /\ draws' = [draws EXCEPT ![i] = "drawn"]
    /\ UNCHANGED <<appImages, appConfig, generatedBlob, previewUrl, isGenerating, appError,
                   genPc, genImages, genConfig, genLayout, clearedSince>>
    /\ UNCHANGED <<lvars, wvars, rvars>>

\* the image of one draw promise fails to load: there is no onerror, the
\* promise is never settled
DrawImageFailed ==
    /\ genPc \in {"blob.draw", "preview.draw"}
    /\ \E i \in DOMAIN draws :
          /\ draws[i] = "pending"
          /\ draws' = [draws EXCEPT ![i] = "failed"]
    /\ UNCHANGED <<appImages, appConfig, generatedBlob, previewUrl, isGenerating, appError,
                   genPc, genImages, genConfig, genLayout, clearedSince>>
    /\ UNCHANGED <<lvars, wvars, rvars>>

\* Promise.all of renderCollageToBlob is fulfilled: canvas.toBlob, then
\* setGeneratedBlob(blob) and the call of renderCollage(images, previewConfig),
\* or the catch and finally of generateCollage
GenBlobReady ==
    /\ genPc = "blob.draw"
    /\ \A i \in DOMAIN draws : draws[i] = "drawn"
    /\ \E blobOk \in BOOLEAN, ctxOk \in BOOLEAN :
          IF ~blobOk
          THEN /\ appError' = "Canvas toBlob failed"
               /\ isGenerating' = FALSE
               /\ genPc' = "idle"
               /\ UNCHANGED <<generatedBlob, genLayout, draws>>
          ELSE /\ generatedBlob' = [set |-> TRUE, of |-> genImages]
               /\ IF ctxOk
                  THEN /\ genLayout' = calculateLayout(genImages, previewConfig(genConfig))
                       /\ draws' = [i \in 1..Len(genLayout') |-> "pending"]
                       /\ genPc' = "preview.draw"
                       /\ UNCHANGED <<isGenerating, appError>>
                  ELSE /\ appError' = "Could not get canvas context"
                       /\ isGenerating' = FALSE
                       /\ genPc' = "idle"
                       /\ UNCHANGED <<genLayout, draws>>
    /\ UNCHANGED <<appImages, appConfig, previewUrl, genImages, genConfig, clearedSince>>
    /\ UNCHANGED <<lvars, wvars, rvars>>

\* Promise.all of renderCollage is fulfilled: toDataURL, setPreviewUrl, and
\* the finally of generateCollage
GenPreviewReady ==
    /\ genPc = "preview.draw"
    /\ \A i \in DOMAIN draws : draws[i] = "drawn"
    /\ previewUrl' = [set |-> TRUE, of |-> genImages]
    /\ isGenerating' = FALSE
    /\ genPc' = "idle"
    /\ UNCHANGED <<appImages, appConfig, generatedBlob, appError, genImages, genConfig,
                   genLayout, draws, clearedSince>>
    /\ UNCHANGED <<lvars, wvars, rvars>>

InitApp ==
    /\ LayoutIdle
    /\ WarpIdle
    /\ AppIdle
    /\ RipIdle

\* the steps of a generation that the event loop runs by itself
GenProgress ==
    \/ GenTimerFires
    \/ DrawImageLoaded
    \/ DrawImageFailed
    \/ GenBlobReady
    \/ GenPreviewReady

NextApp ==
    \/ HandleImagesAdded
    \/ HandleClear
    \/ GenerateCollage
    \/ GenTimerFires
    \/ DrawImageLoaded
    \/ DrawImageFailed
    \/ GenBlobReady
    \/ GenPreviewReady

SpecApp == InitApp /\ [][NextApp]_vars

\* timers and load events that are due are delivered
SpecAppFair == SpecApp /\ WF_vars(GenProgress)

(***************************************************************************)
(* TextureRipper: handleRip, which awaits warpPerspective(imageSrc, points).*)
(***************************************************************************)
\* handleRip up to setTimeout, with an image and 4 points; its button is
\* disabled while isProcessing
HandleRip ==
    /\ ~isProcessing
    /\ ripPc = "idle"
    /\ isProcessing' = TRUE
    /\ ripPc' = "timer"
    /\ UNCHANGED resultSrc
    /\ UNCHANGED <<lvars, wvars, cvars>>

\* the timer callback calls warpPerspective: a new promise, a new Image,
\* img.src = imageSrc
RipTimerFires ==
    /\ ripPc = "timer"
    /\ ripPc' = "awaiting"
    /\ wpc' = "loading"
    /\ promise' = "pending"
    /\ dstPoints' = <<>>
    /\ width' = Zero
    /\ height' = Zero
    /\ A' = <<>>
    /\ b' = <<>>
    /\ A0' = <<>>
    /\ b0' = <<>>
    /\ solveI' = 0
    /\ x' = <<>>
    /\ H' = <<>>
    /\ dstData' = <<>>
    /\ loopX' = 0
    /\ loopY' = 0
    /\ visits' = <<>>
    /\ writes' = <<>>
    /\ UNCHANGED <<entry, corners, srcImg, isProcessing, resultSrc>>
    /\ UNCHANGED <<lvars, cvars>>

\* the await ends: setResultSrc(result), or the catch with its alert; then
\* finally setIsProcessing(false)
RipSettled ==
    /\ ripPc = "awaiting"
    /\ promise # "pending"
    /\ resultSrc' = IF promise = "resolved" THEN "set" ELSE resultSrc
    /\ isProcessing' = FALSE
    /\ ripPc' = "idle"
    /\ UNCHANGED <<lvars, wvars, cvars>>

InitRip ==
    /\ LayoutIdle
    /\ AppIdle
    /\ RipIdle
    /\ entry = "warpPerspective"
    /\ corners \in CornerSets
    /\ dstPoints = <<>>
    /\ srcImg \in SourceImages
    /\ width = Zero
    /\ height = Zero
    /\ A = <<>>
    /\ b = <<>>
    /\ A0 = <<>>
    /\ b0 = <<>>
    /\ solveI = 0
    /\ x = <<>>
    /\ H = <<>>
    /\ dstData = <<>>
    /\ loopX = 0
    /\ loopY = 0
    /\ visits = <<>>
    /\ writes = <<>>
    /\ wpc = "idle"
    /\ promise = "none"

\* the steps the event loop runs by itself once handleRip was invoked
RipProgress ==
    \/ RipTimerFires
    \/ NextWarp
    \/ RipSettled

NextRip ==
    \/ HandleRip
    \/ RipTimerFires
    \/ ImageError
    \/ ImageLoad
    \/ HomographyBuild
    \/ SolvePivot
    \/ SolveEliminate
    \/ SolveBackSubstitute
    \/ HomographyReturn
    \/ ResampleEnter
    \/ ResamplePixel
    \/ ResampleExit
    \/ Resolve
    \/ RipSettled

SpecRip == InitRip /\ [][NextRip]_vars

\* timers, load events and the running handler make progress
SpecRipFair == SpecRip /\ WF_vars(RipProgress)

(***************************************************************************)
(* Claims about calculateLayout (checked under SpecLayout).                *)
(***************************************************************************)
LayoutReturned == lpc = "returned"

\* C1: calculateLayout returns exactly one placement per input item, and the
\* i-th placement refers to the i-th input item (input order is preserved,
\* no item is dropped or duplicated), for every item sequence and config.
C1_OnePlacementPerItemInOrder ==
    LayoutReturned =>
        /\ Len(layout) = Len(images)
        /\ \A i \in 1..Len(images) : layout[i].image = images[i]

\* a returned layout of at least three items that spans more than one row
C1_Witness ==
    /\ LayoutReturned
    /\ Len(images) >= 3
    /\ Len(layout) = Len(images)
    /\ layout[1].y # layout[Len(layout)].y

\* C2: for a valid config and items of positive aspect ratio every returned
\* placement has x >= 0, y >= 0, width >= 0 and height >= 0.
C2_PlacementsNonNegative ==
    (LayoutReturned /\ IsValidConfig(config)
        /\ \A i \in 1..Len(images) : Gt(images[i].aspectRatio, Zero)) =>
        \A i \in 1..Len(layout) :
            /\ Ge(layout[i].x, Zero)
            /\ Ge(layout[i].y, Zero)
            /\ Ge(layout[i].width, Zero)
            /\ Ge(layout[i].height, Zero)

\* C3: with canvasSize <= 0, targetRowHeightRatio <= 0 or gap < 0 the call
\* ends in an InvalidConfig error and returns no placements.
C3_InvalidConfigRejected ==
    (lpc \notin {"start", "loop"}
        /\ (Le(config.canvasSize, Zero) \/ Le(config.targetRowHeightRatio, Zero)
            \/ Lt(config.gap, Zero))) =>
        (lpc = "InvalidConfig" /\ layout = <<>>)

\* C4: on an empty item sequence calculateLayout returns an empty placement
\* sequence and raises no error, whatever the config.
C4_EmptyInputEmptyOutput ==
    (Len(images) = 0 /\ lpc # "start") => (lpc = "returned" /\ layout = <<>>)

\* the empty call has returned, under a config the spec calls invalid
C4_Witness ==
    /\ Len(images) = 0
    /\ LayoutReturned
    /\ layout = <<>>
    /\ ~IsValidConfig(config)

FourSquares == [i \in 1..4 |-> [id |-> i, aspectRatio |-> One]]

ScenarioConfig ==
    [canvasSize |-> I(400), gap |-> Zero, targetRowHeightRatio |-> Num(1, 2)]

ScenarioRect(i, px, py) ==
    [image |-> FourSquares[i], x |-> I(px), y |-> I(py),
     width |-> I(200), height |-> I(200)]

\* C5: four items of aspect ratio 1 with canvasSize 400, gap 0 and
\* targetRowHeightRatio 0.5 give four 200 x 200 placements, the first two at
\* y = 0 (x = 0, 200) and the last two at y = 200 (x = 0, 200).
C5_FourSquaresScenario ==
    (LayoutReturned /\ images = FourSquares /\ config = ScenarioConfig) =>
        layout = <<ScenarioRect(1, 0, 0), ScenarioRect(2, 200, 0),
                   ScenarioRect(3, 0, 200), ScenarioRect(4, 200, 200)>>

\* the scenario's call has returned its four placements
C5_Witness ==
    /\ LayoutReturned
    /\ images = FourSquares
    /\ config = ScenarioConfig
    /\ Len(layout) = 4

(***************************************************************************)
(* Claims about solve, getHomographyMatrix and warpPerspective.            *)
(***************************************************************************)
\* twice the signed area of the triangle p, q, r
cross(p, q, r) ==
    Sub(Mul(Sub(q.x, p.x), Sub(r.y, p.y)), Mul(Sub(q.y, p.y), Sub(r.x, p.x)))

\* no three of the four points are collinear (so no two coincide)
GeneralPosition(quad) ==
    \A i, j, k \in 1..4 :
        (i < j /\ j < k) => cross(quad[i], quad[j], quad[k]) # Zero

\* the pivot selected at some elimination step had magnitude zero: row i is
\* final once step i is over, so the pivot of step i is the diagonal entry
ZeroPivot == \E i \in 1..Len(A) : A[i][i] = Zero

HomographyReturned == wpc = "homography.returned" /\ entry = "getHomographyMatrix"

UnitSquare == <<Pt(0, 0), Pt(1, 0), Pt(1, 1), Pt(0, 1)>>

C7_UnitSquareGivesIdentity ==
    (HomographyReturned /\ corners = UnitSquare /\ dstPoints = UnitSquare) =>
        H = <<One, Zero, Zero, Zero, One, Zero, Zero, Zero, One>>

\* getHomographyMatrix has returned for the unit square mapped to itself
C7_Witness ==
    /\ HomographyReturned
    /\ corners = UnitSquare
    /\ dstPoints = UnitSquare
    /\ Len(H) = 9

\* C8: when a selected pivot has magnitude zero, solve ends in a
\* DegenerateSystem error and never returns a vector holding Infinity or NaN.
C8_SingularSystemReported ==
    /\ (entry = "solve" /\ wpc \notin {"solve.pivot", "solve.eliminate"} /\ ZeroPivot)
          => wpc = "DegenerateSystem"
    /\ (entry = "solve" /\ wpc = "solve.returned")
          => \A i \in 1..Len(x) : IsFinite(x[i])

\* C9: with three collinear (or two coincident) corners getHomographyMatrix
\* and warpPerspective end in a DegenerateSystem error: getHomographyMatrix
\* does not return coefficients and the promise is never resolved.
C9_DegenerateCornersRejected ==
    (entry = "warpPerspective" /\ ~GeneralPosition(corners)) =>
        /\ wpc # "homography.returned"
        /\ promise # "resolved"
        /\ (wpc = "done" /\ promise # "Failed to load image")
              => promise = "DegenerateSystem"

\* C10: when the destination width or height derived from the corners is 0,
\* warpPerspective rejects with DegenerateSize once the image has loaded,
\* before a destination buffer is allocated or the homography computed.
C10_DegenerateSizeRejected ==
    (entry = "warpPerspective" /\ wpc # "loading" /\ promise # "Failed to load image"
        /\ (widthOf(corners) = Zero \/ heightOf(corners) = Zero)) =>
        /\ promise = "DegenerateSize"
        /\ wpc = "done"

(***************************************************************************)
(* Claims about the pixel loop of warpPerspective (checked under SpecWarp).*)
(***************************************************************************)
\* the pixel loop has run
Resampled == entry = "warpPerspective" /\ wpc = "resampled"

DstPixels == 0..(width.n * height.n - 1)

\* the source coordinate the loop computes for destination pixel k
PixelU(k) == mapU(H, I(k % width.n), I(k \div width.n))

PixelV(k) == mapV(H, I(k % width.n), I(k \div width.n))

\* 0 <= u < sourceWidth - 1 and 0 <= v < sourceHeight - 1
PixelInside(k) ==
    /\ ~IsNaN(PixelU(k)) /\ ~IsNaN(PixelV(k))
    /\ ~Lt(PixelU(k), Zero) /\ Lt(PixelU(k), I(srcImg.w - 1))
    /\ ~Lt(PixelV(k), Zero) /\ Lt(PixelV(k), I(srcImg.h - 1))

\* C11: after the pixel loop every destination pixel has alpha 0 or 255;
\* alpha is 255 exactly when its source coordinate satisfies
\* 0 <= u < sourceWidth-1 and 0 <= v < sourceHeight-1, and otherwise all four
\* channels keep their initial value 0.
C11_AlphaMarksSampledPixels ==
    Resampled =>
        \A k \in DstPixels :
            /\ dstData[4 * k + 3] \in {0, 255}
            /\ (dstData[4 * k + 3] = 255) <=> PixelInside(k)
            /\ ~PixelInside(k) => \A ch \in 0..3 : dstData[4 * k + ch] = 0

\* a destination buffer holding a sampled pixel and a pixel left unsampled
\* because u is exactly sourceWidth - 1
C11_Witness ==
    /\ Resampled
    /\ \E k \in DstPixels : dstData[4 * k + 3] = 255 /\ dstData[4 * k] # 0
    /\ \E k \in DstPixels :
          dstData[4 * k + 3] = 0 /\ PixelU(k) = I(srcImg.w - 1)

\* C12: a destination pixel that maps to an in-bounds source coordinate
\* (u, v) with u and v integers gets exactly the R, G, B of source pixel (u, v).
C12_IntegerCoordinateCopiesPixel ==
    Resampled =>
        \A k \in DstPixels :
            (PixelInside(k) /\ PixelU(k).d = 1 /\ PixelV(k).d = 1) =>
                \A ch \in 0..2 :
                    dstData[4 * k + ch] =
                        srcImg.data[(PixelV(k).n * srcImg.w + PixelU(k).n) * 4 + ch]

\* a pixel copied from an integer source coordinate other than the origin
C12_Witness ==
    /\ Resampled
    /\ \E k \in DstPixels :
          /\ PixelInside(k) /\ PixelU(k).d = 1 /\ PixelV(k).d = 1
          /\ PixelU(k).n + PixelV(k).n > 0
          /\ dstData[4 * k] = srcImg.data[(PixelV(k).n * srcImg.w + PixelU(k).n) * 4]

\* the source buffer with the alpha of every pixel replaced; R, G, B kept
WithAlpha(img, alphaOf) ==
    [img EXCEPT !.data = [idx \in DOMAIN img.data |->
                            IF idx % 4 = 3 THEN alphaOf[idx \div 4] ELSE img.data[idx]]]

\* other alpha channels for a buffer of this size: transparent, uniform, mixed
OtherAlphas(img) ==
    {[k \in 0..(img.w * img.h - 1) |-> 0],
     [k \in 0..(img.w * img.h - 1) |-> 77],
     [k \in 0..(img.w * img.h - 1) |-> (k * 100) % 256]}

\* C21: the destination buffer does not depend on the source alpha channel:
\* a source buffer with the same R, G, B and any other alpha gives the same
\* destination buffer for the same corners.
C21_OutputIndependentOfSourceAlpha ==
    Resampled =>
        \A alphaOf \in OtherAlphas(srcImg) :
            resample(H, WithAlpha(srcImg, alphaOf), width.n, height.n,
                     [i \in DOMAIN dstData |-> 0]) = dstData

\* a buffer with sampled, coloured pixels whose source also exists with
\* transparent alpha
C21_Witness ==
    /\ Resampled
    /\ \E k \in DstPixels : dstData[4 * k + 3] = 255 /\ dstData[4 * k + 1] > 0
    /\ \A alphaOf \in OtherAlphas(srcImg) : WithAlpha(srcImg, alphaOf) # srcImg

\* a run of the body of the pixel loop
PixelStep == wpc = "resample.loop" /\ wpc' = "resample.loop"

\* C22: the pixel loop visits every destination pixel (x, y), 0 <= x < width,
\* 0 <= y < height, exactly once and stores to each element at most once; a
\* run of the body stores only to the four channels of its own pixel, and
\* the source buffer is never written.
C22_EachPixelVisitedOnce ==
    [][/\ srcImg' = srcImg
       /\ PixelStep =>
            /\ loopX \in 0..(width.n - 1)
            /\ loopY \in 0..(height.n - 1)
            /\ visits[loopY * width.n + loopX] = 0
            /\ \A i \in DOMAIN dstData :
                  (writes'[i] # writes[i] \/ dstData'[i] # dstData[i]) =>
                      i \div 4 = loopY * width.n + loopX
       /\ wpc' = "resampled" =>
            /\ \A k \in 0..(width.n * height.n - 1) : visits'[k] = 1
            /\ \A i \in DOMAIN dstData : writes'[i] <= 1]_vars

\* a loop over a 2 x 2 destination that stored to some pixels and not to others
C22_Witness ==
    /\ Resampled
    /\ width.n = 2
    /\ height.n = 2
    /\ \A k \in 0..3 : visits[k] = 1
    /\ \E k \in 1..3 : writes[4 * k + 3] = 1 /\ dstData[4 * k + 3] = 255
    /\ \E k \in 0..3 : writes[4 * k] = 0

\* source channel ch of source pixel (sx, sy)
P(sx, sy, ch) == I(srcImg.data[(sy * srcImg.w + sx) * 4 + ch])

\* (1-a)(1-b)*P00 + a(1-b)*P10 + (1-a)b*P01 + ab*P11 for destination pixel k,
\* with (u0, v0) = (floor u, floor v), a = u - u0, b = v - v0
WeightedSum(k, ch) ==
    LET u0 == Floor(PixelU(k)).n
        v0 == Floor(PixelV(k)).n
        wa == Sub(PixelU(k), I(u0))
        wb == Sub(PixelV(k), I(v0))
    IN  Add(Add(Mul(Mul(Sub(One, wa), Sub(One, wb)), P(u0, v0, ch)),
                Mul(Mul(wa, Sub(One, wb)), P(u0 + 1, v0, ch))),
            Add(Mul(Mul(Sub(One, wa), wb), P(u0, v0 + 1, ch)),
                Mul(Mul(wa, wb), P(u0 + 1, v0 + 1, ch))))

\* d is the integer nearest to the number s, the even one of the two when s
\* lies halfway
NearestTiesToEven(d, s) ==
    /\ Le(Abs(Sub(s, I(d))), Num(1, 2))
    /\ Abs(Sub(s, I(d))) = Num(1, 2) => d % 2 = 0

\* C23 (amended): each sampled R, G, B value stored in the destination buffer
\* is the weighted sum (1-a)(1-b)*P00 + a(1-b)*P10 + (1-a)b*P01 + ab*P11
\* rounded to the nearest integer, halfway cases to the even one, in 0..255.
C23_StoredValueIsRoundedSum ==
    Resampled =>
        \A k \in DstPixels : PixelInside(k) =>
            \A ch \in 0..2 :
                /\ dstData[4 * k + ch] \in 0..255
                /\ NearestTiesToEven(dstData[4 * k + ch], WeightedSum(k, ch))

\* C23 as first stated: each sampled R, G, B value is the weighted sum
\* truncated toward zero to an integer in 0..255.
C23_StoredValueIsTruncatedSum ==
    Resampled =>
        \A k \in DstPixels : PixelInside(k) =>
            \A ch \in 0..2 :
                /\ dstData[4 * k + ch] \in 0..255
                /\ Le(I(dstData[4 * k + ch]), WeightedSum(k, ch))
                /\ Lt(WeightedSum(k, ch), I(dstData[4 * k + ch] + 1))

\* a sampled value whose weighted sum has a fraction above one half and was
\* stored rounded up
C23_Witness ==
    /\ Resampled
    /\ \E k \in DstPixels : PixelInside(k) /\
          \E ch \in 0..2 :
              /\ Gt(WeightedSum(k, ch), I(dstData[4 * k + ch] - 1))
              /\ Lt(WeightedSum(k, ch), I(dstData[4 * k + ch]))

\* the bounds check of the loop body passes at the pixel the loop is at
CheckPasses == pixelStores(H, srcImg, width.n, loopX, loopY) # {}

\* C24: whenever the bounds check passes, 0 <= u0 < u1 <= sourceWidth-1 and
\* 0 <= v0 < v1 <= sourceHeight-1, every index idx00, idx10, idx01, idx11
\* (+0..2) lies inside the source buffer, and the destination index
\* (y*w+x)*4+3 lies inside the destination buffer.
C24_NeighbourReadsInsideSource ==
    [][(PixelStep /\ CheckPasses) =>
          LET u0 == Floor(mapU(H, I(loopX), I(loopY))).n
              v0 == Floor(mapV(H, I(loopX), I(loopY))).n
              u1 == u0 + 1
              v1 == v0 + 1
              sw == srcImg.w
              sh == srcImg.h
          IN  /\ 0 <= u0 /\ u0 < u1 /\ u1 <= sw - 1
              /\ 0 <= v0 /\ v0 < v1 /\ v1 <= sh - 1
              /\ \A base \in {(v0 * sw + u0) * 4, (v0 * sw + u1) * 4,
                              (v1 * sw + u0) * 4, (v1 * sw + u1) * 4} :
                    \A ch \in 0..2 :
                        /\ base + ch \in 0..(sw * sh * 4 - 1)
                        /\ base + ch \in DOMAIN srcImg.data
              /\ (loopY * width.n + loopX) * 4 + 3 \in DOMAIN dstData
              /\ (loopY * width.n + loopX) * 4 + 3 < width.n * height.n * 4]_vars

\* a sampled pixel whose neighbour reads reach the last column and the last
\* row of the source buffer
C24_Witness ==
    /\ Resampled
    /\ \E k \in DstPixels :
          /\ dstData[4 * k + 3] = 255
          /\ Floor(PixelU(k)).n + 1 = srcImg.w - 1
          /\ Floor(PixelV(k)).n + 1 = srcImg.h - 1
          /\ PixelU(k).d > 1

(***************************************************************************)
(* Claims about solve (checked under SpecSolve).                           *)
(***************************************************************************)
\* solve has returned x
SolveReturned == entry = "solve" /\ wpc = "solve.returned"

\* the determinant of a matrix of dimension 1, 2 or 3
Det(M) ==
    IF Len(M) = 1 THEN M[1][1]
    ELSE IF Len(M) = 2
    THEN Sub(Mul(M[1][1], M[2][2]), Mul(M[1][2], M[2][1]))
    ELSE Add(Sub(Mul(M[1][1], Sub(Mul(M[2][2], M[3][3]), Mul(M[2][3], M[3][2]))),
                 Mul(M[1][2], Sub(Mul(M[2][1], M[3][3]), Mul(M[2][3], M[3][1])))),
             Mul(M[1][3], Sub(Mul(M[2][1], M[3][2]), Mul(M[2][2], M[3][1]))))

\* row . xs
RECURSIVE Dot(_, _, _)
Dot(row, xs, j) ==
    IF j > Len(row) THEN Zero ELSE Add(Mul(row[j], xs[j]), Dot(row, xs, j + 1))

\* C13: for a non-singular matrix A and any b, the x that solve returns
\* satisfies A.x = b for the A and b the caller passed (exact arithmetic).
C13_SolutionSatisfiesSystem ==
    (SolveReturned /\ Det(A0) # Zero) =>
        \A i \in 1..Len(A0) : Dot(A0[i], x, 1) = b0[i]

\* a non-singular 3x3 system that needs a row swap at step 0 and has a
\* fractional solution, solved
C13_Witness ==
    /\ SolveReturned
    /\ Len(A0) = 3
    /\ Det(A0) # Zero
    /\ A0[1][1] = Zero
    /\ A # A0
    /\ \E k \in 1..3 : x[k].d > 1

(***************************************************************************)
(* Claims about the rows of calculateLayout (checked under SpecLayout).    *)
(***************************************************************************)
\* C14: calculateLayout leaves its item list and its config unchanged, and a
\* second call with the same items and config returns the same placements.
C14_CalculateLayoutIsPure ==
    [][/\ images' = images
       /\ config' = config
       /\ (lpc' = "returned" /\ calls' > 1) => layout' = prevLayout']_vars

\* a second call that returned the same multi-row layout as the first
C14_Witness ==
    /\ lpc = "returned"
    /\ calls = 2
    /\ Len(layout) >= 3
    /\ layout[1].y # layout[Len(layout)].y
    /\ layout = prevLayout

\* the sum of the aspect ratios of a row
RECURSIVE AspectSum(_)
AspectSum(row) ==
    IF row = <<>> THEN Zero
    ELSE Add(AspectSum(SubSeq(row, 1, Len(row) - 1)), row[Len(row)].aspectRatio)

\* targetRowHeight * (sum of aspect ratios) + (rowLength + 1) * gap >= canvasSize
ThresholdReached(row, cfg) ==
    ~Lt(Add(Mul(Mul(cfg.canvasSize, cfg.targetRowHeightRatio), AspectSum(row)),
            Mul(I(Len(row) + 1), cfg.gap)),
        cfg.canvasSize)

\* (canvasSize - (rowLength + 1) * gap) / (sum of aspect ratios)
JustifiedHeight(row, cfg) ==
    Div(Sub(cfg.canvasSize, Mul(I(Len(row) + 1), cfg.gap)), AspectSum(row))

\* the trailing-row clamp condition: strictly more than 1.5 * targetRowHeight
ClampApplies(row, cfg) ==
    Gt(JustifiedHeight(row, cfg),
       Mul(Num(3, 2), Mul(cfg.canvasSize, cfg.targetRowHeightRatio)))

\* a step that takes one item of the loop
IterStep == lpc = "loop" /\ lpc' = "loop" /\ imgIdx' = imgIdx + 1

\* a step of the loop that finalizes the current row as full
FullRowStep == IterStep /\ layout' # layout

\* the step after the loop, when it finalizes a trailing partial row
LastRowStep == lpc = "loop" /\ lpc' = "returned" /\ layout' # layout

\* the items of the row a step finalizes, and the placements it appends
ClosedRow == IF lpc' = "returned" THEN currentRow ELSE Append(currentRow, images[imgIdx])

NewPlacements == SubSeq(layout', Len(layout) + 1, Len(layout'))

\* C15: after an item is appended, the row is finalized (and a new empty row
\* started) iff targetRowHeight * sum(aspectRatio) + (n + 1) * gap >= canvasSize;
\* equality counts, and a single item that reaches the threshold is a row of one.
C15_RowClosedIffThresholdReached ==
    [][IterStep =>
          LET row == Append(currentRow, images[imgIdx])
          IN  IF ThresholdReached(row, config)
              THEN /\ currentRow' = <<>>
                   /\ Len(layout') = Len(layout) + Len(row)
                   /\ \A k \in 1..Len(row) : layout'[Len(layout) + k].image = row[k]
                   /\ SubSeq(layout', 1, Len(layout)) = layout
              ELSE /\ currentRow' = row
                   /\ layout' = layout]_vars

\* a first item that meets the threshold with equality has formed a row of one
C15_Witness ==
    /\ lpc = "loop"
    /\ imgIdx = 2
    /\ currentRow = <<>>
    /\ Len(layout) = 1
    /\ Add(Mul(Mul(config.canvasSize, config.targetRowHeightRatio),
               images[1].aspectRatio),
           Mul(I(2), config.gap)) = config.canvasSize

RECURSIVE SumWidths(_)
SumWidths(placed) ==
    IF placed = <<>> THEN Zero
    ELSE Add(SumWidths(SubSeq(placed, 1, Len(placed) - 1)), placed[Len(placed)].width)

C18_RowGeometry ==
    [][(FullRowStep \/ LastRowStep) =>
          /\ Len(NewPlacements) = Len(ClosedRow)
          /\ NewPlacements[1].x = config.gap
          /\ \A k \in 2..Len(NewPlacements) :
                NewPlacements[k].x =
                    Add(Add(NewPlacements[k - 1].x, NewPlacements[k - 1].width),
                        config.gap)
          /\ \A k \in 1..Len(NewPlacements) :
                /\ NewPlacements[k].y = NewPlacements[1].y
                /\ NewPlacements[k].height = NewPlacements[1].height
                /\ NewPlacements[k].width =
                      Mul(NewPlacements[1].height, ClosedRow[k].aspectRatio)
          /\ Len(layout) = 0 => NewPlacements[1].y = config.gap
          /\ Len(layout) > 0 =>
                NewPlacements[1].y =
                    Add(Add(layout[Len(layout)].y, layout[Len(layout)].height),
                        config.gap)]_vars

\* two rows of two items each, laid out with gap 10
C18_Witness ==
    /\ lpc = "returned"
    /\ config.gap = I(10)
    /\ Len(layout) = 4
    /\ layout[1].x = I(10)
    /\ layout[2].x = Add(layout[1].width, I(20))
    /\ layout[2].y = layout[1].y
    /\ layout[3].y = Add(Add(layout[1].y, layout[1].height), I(10))
    /\ layout[4].y = layout[3].y

\* the placements of one row at height h, top edge at top
RECURSIVE RowRects(_, _, _, _, _, _)
RowRects(row, k, left, top, h, gap) ==
    IF k > Len(row) THEN <<>>
    ELSE <<[image |-> row[k], x |-> left, y |-> top,
            width |-> Mul(h, row[k].aspectRatio), height |-> h]>>
         \o RowRects(row, k + 1, Add(Add(left, Mul(h, row[k].aspectRatio)), gap),
                     top, h, gap)

\* the placements of the rows that fill up while the items of s are taken
\* one by one, each decision using only the items taken so far
RECURSIVE GreedyFullRows(_, _, _, _, _, _)
GreedyFullRows(s, k, row, top, acc, cfg) ==
    IF k > Len(s) THEN acc
    ELSE LET r == Append(row, s[k])
             h == JustifiedHeight(r, cfg)
         IN  IF ThresholdReached(r, cfg)
             THEN GreedyFullRows(s, k + 1, <<>>, Add(Add(top, h), cfg.gap),
                                 acc \o RowRects(r, 1, cfg.gap, top, h, cfg.gap), cfg)
             ELSE GreedyFullRows(s, k + 1, row \o <<s[k]>>, top, acc, cfg)

FullRowsOf(s, cfg) == GreedyFullRows(s, 1, <<>>, cfg.gap, <<>>, cfg)

IsPrefix(s, t) == Len(s) <= Len(t) /\ SubSeq(t, 1, Len(s)) = s

\* C19: rows are decided greedily with no look-ahead: the rows finalized as
\* full while laying out a prefix s of the items depend on s alone, and they
\* are in the layout of s followed by t with the same members and rectangles.
C19_FullRowsIndependentOfLaterItems ==
    /\ lpc = "loop" => layout = FullRowsOf(SubSeq(images, 1, imgIdx - 1), config)
    /\ lpc = "returned" =>
          \A k \in 0..Len(images) :
              IsPrefix(FullRowsOf(SubSeq(images, 1, k), config), layout)

\* a layout of s followed by t that keeps the full row of s while the items
\* of the trailing partial row of s end up in a full row with items of t
C19_Witness ==
    /\ lpc = "returned"
    /\ Len(images) = 4
    /\ Len(FullRowsOf(SubSeq(images, 1, 3), config)) = 2
    /\ Len(FullRowsOf(images, config)) = 4
    /\ layout = FullRowsOf(images, config)

\* the step of solve that searches the pivot of column solveI and swaps
PivotStep == entry = "solve" /\ wpc = "solve.pivot" /\ wpc' = "solve.eliminate"

\* row r is the first of the rows i..n whose entry in column i is of maximal
\* absolute value
FirstMaximal(M, i, r) ==
    /\ \A k \in (i..Len(M)) \ {r} : Ge(Abs(M[r][i]), Abs(M[k][i]))
    /\ \A k \in i..(r - 1) : Lt(Abs(M[k][i]), Abs(M[r][i]))

\* C20: at each elimination step i, after the row swap |A[i][i]| >= |A[k][i]|
\* for every k > i (the first maximal row is taken on ties), the entries of b
\* are swapped with the rows, and when the forward phase ends every entry
\* below the diagonal is 0.
C20_PartialPivoting ==
    [][/\ PivotStep =>
            /\ \A k \in (solveI + 1)..Len(A) :
                  Ge(Abs(A'[solveI][solveI]), Abs(A'[k][solveI]))
            /\ \E r \in solveI..Len(A) :
                  /\ FirstMaximal(A, solveI, r)
                  /\ \A j \in solveI..Len(A) :
                        A'[solveI][j] = A[r][j] /\ A'[r][j] = A[solveI][j]
                  /\ b'[solveI] = b[r] /\ b'[r] = b[solveI]
                  /\ \A k \in 1..Len(A) : k \notin {solveI, r} =>
                        A'[k] = A[k] /\ b'[k] = b[k]
       /\ (entry = "solve" /\ wpc' = "solve.returned") =>
            \A k \in 1..Len(A) : \A j \in 1..(k - 1) : A'[k][j] = Zero]_vars

\* C25: for items with aspectRatio > 0 and a valid config every row
\* finalized as full has rowHeight <= targetRowHeight and the trailing row
\* has rowHeight <= 1.5 * targetRowHeight, so no returned placement is higher
\* than 1.5 * canvasSize * targetRowHeightRatio.
C25_RowHeightsBounded ==
    [][(IsValidConfig(config)
          /\ \A i \in 1..Len(images) : Gt(images[i].aspectRatio, Zero)) =>
          /\ FullRowStep =>
                \A k \in 1..Len(NewPlacements) :
                    Le(NewPlacements[k].height,
                       Mul(config.canvasSize, config.targetRowHeightRatio))
          /\ LastRowStep =>
                \A k \in 1..Len(NewPlacements) :
                    Le(NewPlacements[k].height,
                       Mul(Num(3, 2), Mul(config.canvasSize, config.targetRowHeightRatio)))
          /\ lpc' = "returned" =>
                \A k \in 1..Len(layout') :
                    Le(layout'[k].height,
                       Mul(Mul(Num(3, 2), config.canvasSize),
                           config.targetRowHeightRatio))]_vars

\* a full row of one item below targetRowHeight followed by a trailing row
\* of one item that was clamped to targetRowHeight
C25_Witness ==
    /\ lpc = "returned"
    /\ IsValidConfig(config)
    /\ Len(images) = 2
    /\ Len(layout) = 2
    /\ layout[1].y # layout[2].y
    /\ Lt(layout[1].height, targetRowHeight(config))
    /\ ClampApplies(<<images[2]>>, config)
    /\ layout[2].height = targetRowHeight(config)

(***************************************************************************)
(* Claims about generateCollage and handleClear (SpecApp, SpecAppFair).    *)
(***************************************************************************)
\* C26: after handleClear, generatedBlob and previewUrl stay null until
\* generateCollage is invoked again; a generation that was in flight when
\* handleClear ran does not set them afterwards.
C26_NoResultAfterClear ==
    clearedSince => (generatedBlob = NoResult /\ previewUrl = NoResult)

\* a step that is generateCollage invoked on an empty image list
EmptyInvocation ==
    ~isGenerating /\ Len(appImages) = 0 /\ clearedSince /\ ~clearedSince'

\* C27: every generateCollage invocation on a non-empty image list eventually
\* sets isGenerating back to false, whether the images of the layout load or
\* fail to load; an invocation on an empty list changes no state.
C27_GenerationEnds ==
    /\ [][EmptyInvocation =>
            UNCHANGED <<appImages, appConfig, generatedBlob, previewUrl, isGenerating,
                        appError, genPc>>]_vars
    /\ isGenerating ~> ~isGenerating

(***************************************************************************)
(* Claims about handleRip and warpPerspective (SpecRipFair).               *)
(***************************************************************************)
\* C28: every warpPerspective call eventually settles, also when the image
\* loads but the corners give a zero destination width or height or a
\* singular system; so every handleRip invocation with an image and 4 points
\* eventually sets isProcessing back to false.
C28_WarpSettlesAndRipEnds ==
    /\ (promise = "pending") ~> (promise # "pending")
    /\ isProcessing ~> ~isProcessing

====
